---- MODULE Spec2Model ----
(***************************************************************************)
(* A model of cvtsudoers (plugins/sudoers/cvtsudoers.c): the start-up      *)
(* sequence of main(), its option loop, the synthesis of the sudo_user     *)
(* context (identity, host names, defaults) and the call of the external   *)
(* exporter export_sudoers().                                              *)
(*                                                                         *)
(* argv holds the arguments after argv[0].  getopt_long() is modelled in   *)
(* its default (permuting) mode: operands met before an option are kept    *)
(* aside in nonopts and handed over when the scan ends.  An option and its *)
(* argument are single elements of argv ("-f" stands for -f and --format). *)
(* Library calls whose result the program cannot control (locale, conf,    *)
(* gethostname, strdup, init_defaults, the exporter) are                   *)
(* answered by the machine the process runs on; the answers are recorded   *)
(* in os, os_hostname and os_export so that a second process started on    *)
(* the same machine sees the same machine.                                 *)
(***************************************************************************)
EXTENDS Integers, Sequences, FiniteSets, TLC

VARIABLES
    argv,           \* the argument vector after argv[0] (never written)
    euid,           \* geteuid()
    env,            \* getenv("SUDO_USER") of the running process
    passwd,         \* the records of the machine's passwd database
    os,             \* answers given so far by the boolean library calls
    os_hostname,    \* answer given so far by sudo_gethostname()
    os_export,      \* answers given so far by export_sudoers(), per identity
    pc,             \* position of main()
    ch,             \* last value returned by getopt_long()
    optarg,         \* getopt's optarg
    optind,         \* getopt's scan position in argv
    nonopts,        \* operands getopt has skipped (the permuted tail of argv)
    operands,       \* argv after "argc -= optind; argv += optind"
    input_file,
    output_file,
    output_format,
    exitcode,       \* main's local exitcode
    status,         \* <<>> while running, <<n>> once the process exited with n
    sudo_user_pw,   \* sudo_user.pw
    user_host,
    user_shost,
    user_runhost,
    user_srunhost,
    defaults_set,   \* init_defaults() has returned true
    export_calls,   \* the calls of export_sudoers made, as <<input, output>>
    out,            \* what the process has printed, in order
    run,            \* which process this is (1: first, 2: the second one)
    prev            \* what the first process did, once a second one is started

vars == <<argv, euid, env, passwd, os, os_hostname, os_export, pc, ch, optarg, optind,
          nonopts, operands, input_file, output_file, output_format, exitcode,
          status, sudo_user_pw, user_host, user_shost, user_runhost,
          user_srunhost, defaults_set, export_calls, out, run, prev>>

-----------------------------------------------------------------------------
(* Bounds *)

MaxArgs == 3        \* longest argument vector (after argv[0])

-----------------------------------------------------------------------------
(* Program constants *)

EXIT_SUCCESS == 0
EXIT_FAILURE == 1
ROOT_UID == 0

NULL == "NULL"          \* a null char pointer / struct passwd pointer
EOF == "-1"             \* getopt_long's end-of-options result
BADCH == "?"            \* getopt_long's result for an unknown option or a missing argument

\* short_opts "f:ho:V" / long_opts
OptsWithArg == {"-f", "-o"}
OptsNoArg == {"-h", "-V"}
UnknownOpts == {"-x"}
Operands0 == {"json", "JSON", "xml", "in"}
Tokens == OptsWithArg \cup OptsNoArg \cup UnknownOpts \cup {"--"} \cup Operands0

\* C strings that the program takes apart are sequences of characters;
\* a pointer to one is Ptr(s), the null pointer is NullPtr.
Ptr(s) == [null |-> FALSE, s |-> s]
NullPtr == [null |-> TRUE, s |-> <<>>]
LOCALHOST == <<"l", "o", "c", "a", "l", "h", "o", "s", "t">>
FooExampleCom == <<"f", "o", "o", ".", "e", "x", "a", "m", "p", "l", "e", ".", "c", "o", "m">>
NUL == "\\0"

\* what sudo_gethostname() can answer
HostAnswers == {NullPtr, Ptr(FooExampleCom), Ptr(<<"f", "o", "o">>),
                Ptr(<<".", "a">>), Ptr(<<"a", ".">>), Ptr(<<"a", ".", "b", ".", "c">>)}

\* values of getenv("SUDO_USER"): unset, empty, a user name
EnvValues == {NULL, "", "alice"}
Euids == {ROOT_UID, 1000}

\* struct passwd records: the one getpwnam(name) finds, the one getpwuid(getuid()) finds
PwNam(name) == "pw:" \o name
PwUid == "pw:uid"
PwRecords == {PwNam("alice"), PwUid}

Oracles == {"initlocale", "conf_read", "debug_register", "strdup", "init_defaults"}

-----------------------------------------------------------------------------
(* Pure helpers *)

RECURSIVE SeqsUpTo(_, _)
SeqsUpTo(S, n) ==
    IF n = 0 THEN {<<>>}
    ELSE LET shorter == SeqsUpTo(S, n - 1)
         IN  shorter \cup {Append(s, t) : s \in {x \in shorter : Len(x) = n - 1}, t \in S}

\* tolower() over the strings the model uses, as strcasecmp() applies it
ToLower(s) ==
    CASE s = "JSON" -> "json"
      [] OTHER -> s

\* strcasecmp(a, b) == 0
StrCaseEq(a, b) == ToLower(a) = ToLower(b)

\* strchr(s, c): index of the first c in s, 0 when there is none
RECURSIVE StrChrFrom(_, _, _)
StrChrFrom(s, c, i) ==
    IF i > Len(s) THEN 0
    ELSE IF s[i] = c THEN i
    ELSE StrChrFrom(s, c, i + 1)

StrChr(s, c) == StrChrFrom(s, c, 1)

\* the C string held in a buffer: the characters before the first NUL
CStr(buf) ==
    LET z == StrChr(buf, NUL)
    IN  IF z = 0 THEN buf ELSE SubSeq(buf, 1, z - 1)

-----------------------------------------------------------------------------
(* The machine's answers *)

\* answer v to library call k agrees with what the machine answered before
Answers(k, v) == os[k] = {} \/ os[k] = {v}
Noted(k, v) == [os EXCEPT ![k] = {v}]

-----------------------------------------------------------------------------
(* getopt_long(argc, argv, short_opts, long_opts, NULL) *)

\* index of the first element of argv at or after i that is not an operand
RECURSIVE SkipOperands(_)
SkipOperands(i) ==
    IF i > Len(argv) THEN i
    ELSE IF argv[i] \in Operands0 THEN SkipOperands(i + 1)
    ELSE i

\* the letter getopt_long returns for an option of short_opts / long_opts
OptLetter(opt) ==
    CASE opt = "-f" -> "f"
      [] opt = "-h" -> "h"
      [] opt = "-o" -> "o"
      [] opt = "-V" -> "V"
      [] OTHER -> BADCH

\* one call with the scan at i and the operands `before` set aside: the option
\* found, its argument, the new scan position and the operands set aside
GetoptAt(i, before) ==
    LET j == SkipOperands(i)
        aside == before \o SubSeq(argv, i, j - 1)
    IN  IF j > Len(argv)
        THEN [ch |-> EOF, optarg |-> NULL, optind |-> j, nonopts |-> aside]
        ELSE IF argv[j] = "--"
        THEN [ch |-> EOF, optarg |-> NULL, optind |-> Len(argv) + 1,
              nonopts |-> aside \o SubSeq(argv, j + 1, Len(argv))]
        ELSE IF argv[j] \in OptsWithArg
        THEN IF j = Len(argv)
             THEN [ch |-> BADCH, optarg |-> NULL, optind |-> j + 1, nonopts |-> aside]
             ELSE [ch |-> OptLetter(argv[j]), optarg |-> argv[j + 1],
                   optind |-> j + 2, nonopts |-> aside]
        ELSE [ch |-> OptLetter(argv[j]), optarg |-> NULL, optind |-> j + 1,
              nonopts |-> aside]

\* the call main makes
GetoptLong == GetoptAt(optind, nonopts)

\* the assignments one call of getopt_long makes
Getopt(g) ==
    /\ ch' = g.ch
    /\ optarg' = g.optarg
    /\ optind' = g.optind
    /\ nonopts' = g.nonopts

-----------------------------------------------------------------------------
(* Ways the process ends *)

\* exit(code)
Exit(code) ==
    /\ pc' = "exited"
    /\ status' = <<code>>

\* "done:" of main: return exitcode
GotoDone(code) ==
    /\ exitcode' = code
    /\ pc' = "exited"
    /\ status' = <<code>>

\* sudo_fatalx(msg): print the message and exit(EXIT_FAILURE)
Fatalx(msg) ==
    /\ out' = Append(out, "stderr: " \o msg)
    /\ Exit(EXIT_FAILURE)

\* usage(fatal): what it prints
usage(o, fatal) ==
    Append(o, IF fatal # 0 THEN "stderr: usage" ELSE "stdout: usage")

\* help(): banner, usage(0), the option list, exit(0)
help ==
    /\ out' = Append(usage(Append(out, "stdout: help banner"), 0), "stdout: options")
    /\ Exit(EXIT_SUCCESS)

inputs == <<argv, euid, env, passwd>>
machine == <<os, os_hostname, os_export>>
getoptvars == <<ch, optarg, optind, nonopts>>
config == <<operands, input_file, output_file, output_format>>
context == <<sudo_user_pw, user_host, user_shost, user_runhost, user_srunhost, defaults_set>>
history == <<run, prev>>

-----------------------------------------------------------------------------
(* The state of a process just started *)

Started ==
    /\ pc = "initlocale"
    /\ ch = NULL
    /\ optarg = NULL
    /\ optind = 1
    /\ nonopts = <<>>
    /\ operands = <<>>
    /\ input_file = "-"
    /\ output_file = "-"
    /\ output_format = "JSON"
    /\ exitcode = EXIT_FAILURE
    /\ status = <<>>
    /\ sudo_user_pw = NULL
    /\ user_host = NullPtr
    /\ user_shost = NullPtr
    /\ user_runhost = NullPtr
    /\ user_srunhost = NullPtr
    /\ defaults_set = FALSE
    /\ export_calls = <<>>
    /\ out = <<>>

Init ==
    /\ argv \in SeqsUpTo(Tokens, MaxArgs)
    /\ euid \in Euids
    /\ env \in EnvValues
    /\ passwd \in SUBSET PwRecords
    /\ os = [k \in Oracles |-> {}]
    /\ os_hostname = {}
    /\ os_export = [p \in PwRecords |-> {}]
    /\ run = 1
    /\ prev = <<>>
    /\ Started

-----------------------------------------------------------------------------
(* main(): start-up *)

\* sudoers_initlocale(...) or sudo_fatalx("unable to allocate memory")
InitLocale ==
    /\ pc = "initlocale"
    /\ \E ok \in BOOLEAN :
        /\ Answers("initlocale", ok)
        /\ os' = Noted("initlocale", ok)
        /\ IF ok
           THEN pc' = "conf_read" /\ UNCHANGED <<out, status>>
           ELSE Fatalx("main: unable to allocate memory")
    /\ UNCHANGED <<inputs, os_hostname, os_export, getoptvars, config, context,
                   history, exitcode, export_calls>>

\* sudo_conf_read(...) == -1: goto done
ConfRead ==
    /\ pc = "conf_read"
    /\ \E ok \in BOOLEAN :
        /\ Answers("conf_read", ok)
        /\ os' = Noted("conf_read", ok)
        /\ IF ok
           THEN pc' = "debug_register" /\ UNCHANGED <<exitcode, status>>
           ELSE GotoDone(exitcode)
    /\ UNCHANGED <<inputs, os_hostname, os_export, getoptvars, config, context,
                   history, export_calls, out>>

\* !sudoers_debug_register(...): goto done
DebugRegister ==
    /\ pc = "debug_register"
    /\ \E ok \in BOOLEAN :
        /\ Answers("debug_register", ok)
        /\ os' = Noted("debug_register", ok)
        /\ IF ok
           THEN pc' = "args" /\ UNCHANGED <<exitcode, status>>
           ELSE GotoDone(exitcode)
    /\ UNCHANGED <<inputs, os_hostname, os_export, getoptvars, config, context,
                   history, export_calls, out>>

-----------------------------------------------------------------------------
(* main(): the option loop *)

\* the test of case 'f' with its sense inverted
UnsupportedFormat_Inverted(arg) == StrCaseEq(arg, "json")

\* case 'f': strcasecmp(optarg, "json") != 0
UnsupportedFormat(arg) == ~StrCaseEq(arg, "json")

OptFormat ==
    /\ pc = "args"
    /\ LET g == GetoptLong
       IN  /\ g.ch = "f"
           /\ Getopt(g)
           /\ IF UnsupportedFormat(g.optarg)
              THEN /\ out' = usage(Append(out, "stderr: unsupported output format " \o g.optarg), 1)
                   /\ Exit(1)
                   /\ UNCHANGED output_format
              ELSE /\ output_format' = g.optarg
                   /\ UNCHANGED <<pc, status, out>>
    /\ UNCHANGED <<inputs, machine, operands, input_file, output_file, context,
                   history, exitcode, export_calls>>

\* case 'h': help()
OptHelp ==
    /\ pc = "args"
    /\ LET g == GetoptLong
       IN  /\ g.ch = "h"
           /\ Getopt(g)
           /\ help
    /\ UNCHANGED <<inputs, machine, config, context, history, exitcode, export_calls>>

\* case 'o': output_file = optarg
OptOutput ==
    /\ pc = "args"
    /\ LET g == GetoptLong
       IN  /\ g.ch = "o"
           /\ Getopt(g)
           /\ output_file' = g.optarg
    /\ UNCHANGED <<inputs, machine, operands, input_file, output_format, context,
                   history, pc, status, exitcode, export_calls, out>>

\* case 'V' with the "goto done" left out: the loop goes on
OptVersion_NoGoto ==
    /\ pc = "args"
    /\ LET g == GetoptLong
       IN  /\ g.ch = "V"
           /\ Getopt(g)
           /\ out' = Append(Append(out, "stdout: version"), "stdout: grammar version")
           /\ exitcode' = EXIT_SUCCESS
    /\ UNCHANGED <<inputs, machine, config, context, history, export_calls, pc, status>>

\* case 'V': print the two version lines, exitcode = EXIT_SUCCESS, goto done
OptVersion ==
    /\ pc = "args"
    /\ LET g == GetoptLong
       IN  /\ g.ch = "V"
           /\ Getopt(g)
           /\ out' = Append(Append(out, "stdout: version"), "stdout: grammar version")
           /\ GotoDone(EXIT_SUCCESS)
    /\ UNCHANGED <<inputs, machine, config, context, history, export_calls>>

\* default: usage(1)
OptDefault ==
    /\ pc = "args"
    /\ LET g == GetoptLong
       IN  /\ g.ch = BADCH
           /\ Getopt(g)
           /\ out' = usage(out, 1)
           /\ Exit(1)
    /\ UNCHANGED <<inputs, machine, config, context, history, exitcode, export_calls>>

\* the operand count test off by one
TooManyOperands_OffByOne(argc) == argc > 2

\* argc > 1 after "argc -= optind"
TooManyOperands(argc) == argc > 1

\* getopt_long returned -1: argc -= optind, argv += optind, the input file
ArgsDone ==
    /\ pc = "args"
    /\ LET g == GetoptLong
           argc == Len(g.nonopts)
       IN  /\ g.ch = EOF
           /\ Getopt(g)
           /\ operands' = g.nonopts
           /\ IF argc > 0 /\ TooManyOperands(argc)
              THEN /\ out' = usage(out, 1)
                   /\ Exit(1)
                   /\ UNCHANGED input_file
              ELSE /\ input_file' = IF argc > 0 THEN g.nonopts[1] ELSE input_file
                   /\ pc' = "identity"
                   /\ UNCHANGED <<status, out>>
    /\ UNCHANGED <<inputs, machine, output_file, output_format, context, history,
                   exitcode, export_calls>>

-----------------------------------------------------------------------------
(* main(): the sudo_user context *)

\* sudo_getpwnam(user), sudo_getpwuid(getuid()): the record, or NULL
sudo_getpwnam(user) == IF PwNam(user) \in passwd THEN PwNam(user) ELSE NULL
sudo_getpwuid == IF PwUid \in passwd THEN PwUid ELSE NULL

\* SUDO_USER trusted whatever the effective uid
UsesEnvUser_AnyEuid(e, user) == user # NULL /\ user # ""

\* geteuid() == 0 and SUDO_USER set and not empty: sudo_getpwnam(user) is called
UsesEnvUser(e, user) == e = ROOT_UID /\ user # NULL /\ user # ""

\* the lookups without the fall back to the real uid
IdentityOf_NoFallback(e, user, pw0) ==
    IF e = ROOT_UID /\ user # NULL /\ user # "" THEN sudo_getpwnam(user) ELSE pw0

\* sudo_user.pw after the lookups, from its value pw0 before them
IdentityOf(e, user, pw0) ==
    LET pw1 == IF UsesEnvUser(e, user) THEN sudo_getpwnam(user) ELSE pw0
    IN  IF pw1 = NULL THEN sudo_getpwuid ELSE pw1

\* the result of sudo_getpwuid left unchecked
NoIdentity_Unchecked(pw) == FALSE

\* sudo_fatalx("you do not exist in the passwd database")
NoIdentity(pw) == pw = NULL

ResolveIdentity ==
    /\ pc = "identity"
    /\ LET pw == IdentityOf(euid, env, sudo_user_pw)
       IN  /\ sudo_user_pw' = pw
           /\ IF NoIdentity(pw)
              THEN Fatalx("you do not exist in the passwd database")
              ELSE pc' = "hostname" /\ UNCHANGED <<status, out>>
    /\ UNCHANGED <<inputs, machine, getoptvars, config, user_host, user_shost,
                   user_runhost, user_srunhost, defaults_set, history, exitcode,
                   export_calls>>

\* get_hostname with the '.' not put back after the copy
get_hostname_NoRestore(h, dupOk) ==
    IF ~h.null
    THEN LET p == StrChr(h.s, ".")
         IN  IF p # 0
             THEN LET cut == [h.s EXCEPT ![p] = NUL]
                  IN  IF dupOk
                      THEN [fatal |-> FALSE, host |-> Ptr(CStr(cut)), shost |-> Ptr(CStr(cut))]
                      ELSE [fatal |-> TRUE, host |-> Ptr(CStr(cut)), shost |-> NullPtr]
             ELSE [fatal |-> FALSE, host |-> h, shost |-> h]
    ELSE [fatal |-> FALSE, host |-> Ptr(LOCALHOST), shost |-> Ptr(LOCALHOST)]

\* get_hostname whose fall back sets user_host alone
get_hostname_HostOnlyFallback(h, dupOk) ==
    IF ~h.null
    THEN LET p == StrChr(h.s, ".")
         IN  IF p # 0
             THEN LET cut == [h.s EXCEPT ![p] = NUL]
                      back == [cut EXCEPT ![p] = "."]
                  IN  IF dupOk
                      THEN [fatal |-> FALSE, host |-> Ptr(CStr(back)), shost |-> Ptr(CStr(cut))]
                      ELSE [fatal |-> TRUE, host |-> Ptr(CStr(cut)), shost |-> NullPtr]
             ELSE [fatal |-> FALSE, host |-> h, shost |-> h]
    ELSE [fatal |-> FALSE, host |-> Ptr(LOCALHOST), shost |-> h]

\* get_hostname(): h is what sudo_gethostname() returned, dupOk whether strdup
\* succeeded.  The '.' is overwritten with NUL, the buffer copied, the '.' put back.
get_hostname(h, dupOk) ==
    IF ~h.null
    THEN LET p == StrChr(h.s, ".")
         IN  IF p # 0
             THEN LET cut == [h.s EXCEPT ![p] = NUL]
                      back == [cut EXCEPT ![p] = "."]
                  IN  IF dupOk
                      THEN [fatal |-> FALSE, host |-> Ptr(CStr(back)), shost |-> Ptr(CStr(cut))]
                      ELSE [fatal |-> TRUE, host |-> Ptr(CStr(cut)), shost |-> NullPtr]
             ELSE [fatal |-> FALSE, host |-> h, shost |-> h]
    ELSE [fatal |-> FALSE, host |-> Ptr(LOCALHOST), shost |-> Ptr(LOCALHOST)]

\* strdup is called: the host name has a '.'
CallsStrdup(h) == ~h.null /\ StrChr(h.s, ".") # 0

GetHostname ==
    /\ pc = "hostname"
    /\ \E h \in HostAnswers, dupOk \in BOOLEAN :
        LET r == get_hostname(h, dupOk)
        IN  /\ os_hostname = {} \/ os_hostname = {h}
            /\ os_hostname' = {h}
            /\ IF CallsStrdup(h) THEN Answers("strdup", dupOk) ELSE dupOk
            /\ os' = IF CallsStrdup(h) THEN Noted("strdup", dupOk) ELSE os
            /\ user_host' = r.host
            /\ user_shost' = r.shost
            /\ IF r.fatal
               THEN /\ Fatalx("get_hostname: unable to allocate memory")
                    /\ UNCHANGED <<user_runhost, user_srunhost>>
               ELSE /\ user_runhost' = r.host
                    /\ user_srunhost' = r.shost
                    /\ pc' = "defaults"
                    /\ UNCHANGED <<status, out>>
    /\ UNCHANGED <<inputs, os_export, getoptvars, config, sudo_user_pw, defaults_set,
                   history, exitcode, export_calls>>

\* the result of init_defaults ignored
DefaultsFailed_Ignored(ok) == FALSE

\* !init_defaults(): sudo_fatalx
DefaultsFailed(ok) == ~ok

InitDefaults ==
    /\ pc = "defaults"
    /\ \E ok \in BOOLEAN :
        /\ Answers("init_defaults", ok)
        /\ os' = Noted("init_defaults", ok)
        /\ defaults_set' = ok
        /\ IF DefaultsFailed(ok)
           THEN Fatalx("unable to initialize sudoers default values")
           ELSE pc' = "export" /\ UNCHANGED <<status, out>>
    /\ UNCHANGED <<inputs, os_hostname, os_export, getoptvars, config, sudo_user_pw,
                   user_host, user_shost, user_runhost, user_srunhost, history,
                   exitcode, export_calls>>

\* the exporter's result dropped: exitcode keeps its initial value
ExitCodeOf_Unassigned(exported) == EXIT_FAILURE

\* exitcode = export_sudoers(...) ? EXIT_SUCCESS : EXIT_FAILURE
ExitCodeOf(exported) == IF exported THEN EXIT_SUCCESS ELSE EXIT_FAILURE

\* export_sudoers(input_file, output_file), then "done:"
ExportSudoers ==
    /\ pc = "export"
    /\ \E exported \in BOOLEAN :
        /\ os_export[sudo_user_pw] = {} \/ os_export[sudo_user_pw] = {exported}
        /\ os_export' = [os_export EXCEPT ![sudo_user_pw] = {exported}]
        /\ export_calls' = Append(export_calls, <<input_file, output_file>>)
        /\ GotoDone(ExitCodeOf(exported))
    /\ UNCHANGED <<inputs, os, os_hostname, getoptvars, config, context, history, out>>

-----------------------------------------------------------------------------
(* A second process on the same machine, with the same arguments and ids,   *)
(* whose environment differs in SUDO_USER alone.                            *)

Outcome ==
    [env |-> env, pw |-> sudo_user_pw, calls |-> export_calls, status |-> status, out |-> out]

Rerun ==
    /\ pc = "exited"
    /\ run = 1
    /\ run' = 2
    /\ prev' = <<Outcome>>
    /\ env' \in EnvValues \ {env}
    /\ pc' = "initlocale"
    /\ ch' = NULL
    /\ optarg' = NULL
    /\ optind' = 1
    /\ nonopts' = <<>>
    /\ operands' = <<>>
    /\ input_file' = "-"
    /\ output_file' = "-"
    /\ output_format' = "JSON"
    /\ exitcode' = EXIT_FAILURE
    /\ status' = <<>>
    /\ sudo_user_pw' = NULL
    /\ user_host' = NullPtr
    /\ user_shost' = NullPtr
    /\ user_runhost' = NullPtr
    /\ user_srunhost' = NullPtr
    /\ defaults_set' = FALSE
    /\ export_calls' = <<>>
    /\ out' = <<>>
    /\ UNCHANGED <<argv, euid, passwd, machine>>

Next ==
    \/ InitLocale
    \/ ConfRead
    \/ DebugRegister
    \/ OptFormat
    \/ OptHelp
    \/ OptOutput
    \/ OptVersion
    \/ OptDefault
    \/ ArgsDone
    \/ ResolveIdentity
    \/ GetHostname
    \/ InitDefaults
    \/ ExportSudoers

Spec == Init /\ [][Next]_vars

\* two processes, one after the other
NextTwoRuns ==
    \/ Next
    \/ Rerun

SpecTwoRuns == Init /\ [][NextTwoRuns]_vars

-----------------------------------------------------------------------------
(* Vocabulary of the properties *)

Exited == pc = "exited"
Printed(m) == \E i \in DOMAIN out : out[i] = m
Exported == export_calls # <<>>

EndedInHelp == Exited /\ Printed("stdout: help banner")
EndedInVersion == Exited /\ Printed("stdout: version")
EndedInUsageError == Exited /\ Printed("stderr: usage")
NoIdentityMessage == Printed("stderr: you do not exist in the passwd database")
EndedInFatalError ==
    /\ Exited
    /\ \/ Printed("stderr: main: unable to allocate memory")
       \/ NoIdentityMessage
       \/ Printed("stderr: get_hostname: unable to allocate memory")
       \/ Printed("stderr: unable to initialize sudoers default values")
\* sudo_conf_read or sudoers_debug_register failed: main left through "done" in silence
StartupFailed == os["conf_read"] = {FALSE} \/ os["debug_register"] = {FALSE}

IdentityUntouched == sudo_user_pw = NULL
HostsUntouched ==
    user_host.null /\ user_shost.null /\ user_runhost.null /\ user_srunhost.null
HostsSet ==
    ~user_host.null /\ ~user_shost.null /\ ~user_runhost.null /\ ~user_srunhost.null
ContextReady == sudo_user_pw # NULL /\ HostsSet /\ defaults_set
ContextUntouched ==
    /\ IdentityUntouched
    /\ HostsUntouched
    /\ ~defaults_set
    /\ os_hostname = {}
    /\ os["init_defaults"] = {}

\* every getopt_long result the argument vector holds, were the loop never left early
RECURSIVE ParseFrom(_, _)
ParseFrom(i, before) ==
    LET g == GetoptAt(i, before)
    IN  IF g.ch = EOF THEN <<g>> ELSE <<g>> \o ParseFrom(g.optind, g.nonopts)

FullParse == ParseFrom(1, <<>>)
\* the positional arguments of the invocation
Positionals == FullParse[Len(FullParse)].nonopts
\* the invocation asks for a format that is not "json" in any letter case
BadFormatRequested ==
    \E i \in DOMAIN FullParse :
        FullParse[i].ch = "f" /\ FullParse[i].optarg \notin {"json", "JSON"}

\* the passwd lookups of main have been made in this process
IdentityStepTaken ==
    \/ pc \in {"hostname", "defaults", "export"}
    \/ Exited /\ (sudo_user_pw # NULL \/ NoIdentityMessage)
\* the SUDO_USER name is looked up and found
ActingUserFound ==
    euid = ROOT_UID /\ env # NULL /\ env # "" /\ PwNam(env) \in passwd
\* get_hostname has returned in this process
HostnameStepDone == pc \in {"defaults", "export"} \/ (Exited /\ ~user_runhost.null)
HostLookupFailed == os_hostname = {NullPtr}

\* the part of s before its first "." (all of s when it has none)
PrefixBeforeDot(s) ==
    LET n == CHOOSE k \in 0..Len(s) :
                 /\ \A i \in 1..k : s[i] # "."
                 /\ k = Len(s) \/ s[k + 1] = "."
    IN  SubSeq(s, 1, n)

-----------------------------------------------------------------------------
(* C1 *)

\* C1 (as stated): export_sudoers is called at most once, only with the identity
\* resolved, the four host fields set and the defaults initialised, and exactly
\* once in every run that does not end in help, version, a usage error or a
\* fatal setup error.
C1_AsStated ==
    /\ Len(export_calls) <= 1
    /\ Exported => ContextReady
    /\ (Exited /\ ~EndedInHelp /\ ~EndedInVersion /\ ~EndedInUsageError /\ ~EndedInFatalError)
          => Len(export_calls) = 1

\* C1 (amended): as stated, the runs that end because sudo_conf_read or
\* sudoers_debug_register failed being excepted too.
C1_ExportOnceAfterContext ==
    /\ Len(export_calls) <= 1
    /\ Exported => ContextReady
    /\ (Exited /\ ~EndedInHelp /\ ~EndedInVersion /\ ~EndedInUsageError
           /\ ~EndedInFatalError /\ ~StartupFailed)
          => Len(export_calls) = 1

C1_Witness == Exited /\ Len(export_calls) = 1 /\ ContextReady /\ out = <<>>

-----------------------------------------------------------------------------
(* C2 *)

\* C2: the exit status is 0 or 1; it is 0 exactly when the run ended through
\* help, version or an exporter call that returned true; an exporter call gives
\* 0 for true and 1 for false; usage errors, fatal errors and start-up failures give 1.
C2_ExitStatus ==
    /\ ~Exited => status = <<>>
    /\ Exited =>
        /\ status \in {<<0>>, <<1>>}
        /\ status = <<0>> <=>
              (EndedInHelp \/ EndedInVersion \/ (Exported /\ os_export[sudo_user_pw] = {TRUE}))
        /\ Exported /\ os_export[sudo_user_pw] = {TRUE} => status = <<0>>
        /\ Exported /\ os_export[sudo_user_pw] = {FALSE} => status = <<1>>
        /\ (EndedInUsageError \/ EndedInFatalError \/ (StartupFailed /\ ~Exported))
              => status = <<1>>

C2_Witness == Exited /\ Exported /\ os_export[sudo_user_pw] = {TRUE} /\ status = <<0>>

-----------------------------------------------------------------------------
(* C3 *)

\* C3 (as stated): an invocation that asks for a format other than "json" exits
\* with failure status and usage text, and never calls the exporter.
C3_AsStated ==
    BadFormatRequested =>
        /\ ~Exported
        /\ Exited => status = <<1>> /\ Printed("stderr: usage")

\* C3 (amended): when the option loop reaches -f with a value other than "json"
\* (in any letter case) the run ends there with status 1 and the usage text on
\* stderr; an invocation that asks for such a format never calls the exporter,
\* and ends with failure status unless the loop met -h or -V first.
C3_UnsupportedFormat ==
    /\ (ch = "f" /\ optarg \notin {"json", "JSON"}) =>
          /\ Exited
          /\ status = <<1>>
          /\ Printed("stderr: usage")
          /\ ContextUntouched
    /\ BadFormatRequested =>
          /\ ~Exported
          /\ Exited => (status = <<1>> \/ EndedInHelp \/ EndedInVersion)

C3_Witness == Exited /\ ch = "f" /\ optarg = "xml" /\ status = <<1>> /\ Len(argv) = 3

-----------------------------------------------------------------------------
(* C4 *)

\* C4 (as stated): an invocation with two or more positional arguments exits with
\* failure status, resolves no identity, host or defaults and never calls the exporter.
C4_AsStated ==
    Len(Positionals) >= 2 =>
        /\ ContextUntouched
        /\ ~Exported
        /\ Exited => status = <<1>>

\* C4 (amended): as stated, except that a run whose option loop reaches -h or -V
\* ends with success status.
C4_TooManyPositionals ==
    Len(Positionals) >= 2 =>
        /\ ContextUntouched
        /\ ~Exported
        /\ pc \notin {"identity", "hostname", "defaults", "export"}
        /\ Exited => (status = <<1>> \/ EndedInHelp \/ EndedInVersion)
        /\ (Exited /\ ch = EOF) => (status = <<1>> /\ Printed("stderr: usage"))

C4_Witness == Exited /\ ch = EOF /\ Len(operands) >= 2 /\ status = <<1>>

-----------------------------------------------------------------------------
(* C5 *)

\* C5: when the option loop reaches -h or -V the run ends with success status and
\* neither identity, host or defaults resolution nor the exporter is performed,
\* whatever arguments follow.
C5_HelpVersion ==
    ch \in {"h", "V"} =>
        /\ Exited
        /\ status = <<0>>
        /\ ContextUntouched
        /\ ~Exported

C5_Witness ==
    /\ Exited
    /\ ch \in {"h", "V"}
    /\ BadFormatRequested
    /\ optind <= Len(argv)

-----------------------------------------------------------------------------
(* C6 *)

\* C6 (as stated): with no passwd record for the real uid, every run that reaches
\* identity resolution ends with failure status before hostname resolution,
\* defaults initialisation and any exporter call.
C6_AsStated ==
    (PwUid \notin passwd /\ IdentityStepTaken) =>
        /\ Exited
        /\ status = <<1>>
        /\ HostsUntouched /\ os_hostname = {}
        /\ ~defaults_set /\ os["init_defaults"] = {}
        /\ ~Exported

\* C6 (amended): as stated, for the runs in which the SUDO_USER lookup yields no
\* record (not elevated, variable unset or empty, or name not found).
C6_NoIdentityIsFatal ==
    (PwUid \notin passwd /\ IdentityStepTaken /\ ~ActingUserFound) =>
        /\ Exited
        /\ status = <<1>>
        /\ NoIdentityMessage
        /\ HostsUntouched /\ os_hostname = {}
        /\ ~defaults_set /\ os["init_defaults"] = {}
        /\ ~Exported

C6_Witness == PwUid \notin passwd /\ Exited /\ NoIdentityMessage /\ euid = ROOT_UID /\ env = "alice"

-----------------------------------------------------------------------------
(* C7 *)

\* C7: with euid # 0, a second run that differs from the first in SUDO_USER alone
\* resolves the same identity, calls the exporter with the same arguments and ends
\* with the same exit status.
C7_EnvIgnoredUnlessRoot ==
    (run = 2 /\ euid # ROOT_UID /\ Exited) =>
        /\ prev[1].env # env
        /\ prev[1].pw = sudo_user_pw
        /\ prev[1].calls = export_calls
        /\ prev[1].status = status

C7_Witness ==
    /\ run = 2
    /\ euid # ROOT_UID
    /\ Exited
    /\ Exported
    /\ env = "alice"
    /\ PwNam("alice") \in passwd
    /\ sudo_user_pw = PwUid

-----------------------------------------------------------------------------
(* C8 *)

\* C8 (as stated): when sudo_gethostname fails, the four host fields are
\* "localhost", the run does not end in get_hostname, and it goes on to
\* init_defaults and then to the exporter call.
C8_AsStated ==
    (HostLookupFailed /\ pc # "hostname") =>
        /\ user_host = Ptr(LOCALHOST) /\ user_shost = Ptr(LOCALHOST)
        /\ user_runhost = Ptr(LOCALHOST) /\ user_srunhost = Ptr(LOCALHOST)
        /\ Exited => (os["init_defaults"] # {} /\ Len(export_calls) = 1)

\* C8 (amended): as stated, the exporter call being made when init_defaults succeeds.
C8_LocalhostFallback ==
    (HostLookupFailed /\ pc # "hostname") =>
        /\ user_host = Ptr(LOCALHOST) /\ user_shost = Ptr(LOCALHOST)
        /\ user_runhost = Ptr(LOCALHOST) /\ user_srunhost = Ptr(LOCALHOST)
        /\ pc \in {"defaults", "export", "exited"}
        /\ ~Printed("stderr: get_hostname: unable to allocate memory")
        /\ Exited =>
              /\ os["init_defaults"] # {}
              /\ os["init_defaults"] = {TRUE} => Len(export_calls) = 1
              /\ os["init_defaults"] = {FALSE} =>
                    Printed("stderr: unable to initialize sudoers default values")

C8_Witness ==
    HostLookupFailed /\ Exited /\ Len(export_calls) = 1 /\ user_srunhost = Ptr(LOCALHOST)

-----------------------------------------------------------------------------
(* C9 *)

\* C9: when sudo_gethostname returns h, get_hostname leaves full host h, short
\* host the part of h before its first '.', and the run hosts equal to them;
\* "foo.example.com" gives "foo" and "foo.example.com".
C9_HostSplit ==
    (HostnameStepDone /\ ~HostLookupFailed) =>
        \E h \in HostAnswers :
            /\ os_hostname = {h}
            /\ user_host = h
            /\ user_shost = Ptr(PrefixBeforeDot(h.s))
            /\ user_runhost = user_host
            /\ user_srunhost = user_shost
            /\ h.s = FooExampleCom =>
                  user_shost.s = <<"f", "o", "o">> /\ user_host.s = FooExampleCom

C9_Witness ==
    /\ pc = "defaults"
    /\ os_hostname = {Ptr(FooExampleCom)}
    /\ user_shost = Ptr(<<"f", "o", "o">>)
    /\ user_host = Ptr(FooExampleCom)

-----------------------------------------------------------------------------
(* C10 *)

\* C10: the identity is the record of the SUDO_USER name exactly when euid is 0,
\* the variable is set and not empty and the name is found; otherwise it is the
\* record of the real uid, and the run dies only when that record is absent too.
C10_IdentityResolver ==
    IdentityStepTaken =>
        /\ ActingUserFound => (sudo_user_pw = PwNam(env) /\ ~NoIdentityMessage)
        /\ (~ActingUserFound /\ PwUid \in passwd) =>
              (sudo_user_pw = PwUid /\ ~NoIdentityMessage)
        /\ (~ActingUserFound /\ PwUid \notin passwd) =>
              (sudo_user_pw = NULL /\ Exited /\ status = <<1>> /\ NoIdentityMessage)

C10_Witness ==
    /\ pc = "hostname"
    /\ sudo_user_pw = PwNam("alice")
    /\ PwUid \in passwd
    /\ euid = ROOT_UID

====
